---- MODULE Spec2Model ----
(***************************************************************************)
(* Model of app.py: the Flask handlers /consultar and /test-impi/<marca>,  *)
(* the memoized AI advisor analizar_con_gemini and the registry prober     *)
(* buscar_en_marcanet_http.                                                *)
(*                                                                         *)
(* Strings that the code inspects are sequences of characters or of text   *)
(* fragments; JSON values are records with a "kind" tag.  The dict that    *)
(* lru_cache hands out is the very object it keeps, so the handler's item  *)
(* assignments are modelled as updates of the cache entry.                 *)
(***************************************************************************)
EXTENDS Integers, Sequences, FiniteSets, TLC

VARIABLES
  GEMINI_AVAILABLE,  \* module global set once at import time
  cache,             \* lru_cache store: key -> the dict object it holds
  lru,               \* keys of the cache, least recently used first
  orig,              \* history: key -> value the advisor produced at the last miss
  pc,                \* position of the request being handled
  req,               \* locals of the request being handled
  last,              \* the response sent for the latest finished request
  nreq               \* number of requests received so far

vars == <<GEMINI_AVAILABLE, cache, lru, orig, pc, req, last, nreq>>

\* ---------------------------------------------------------------- bounds
MaxRequests == 2
MaxBody == 2

\* ------------------------------------------------------- program constants
CacheMaxSize == 100
ScoreOcupada == 5
ScoreDisponibleMin == 80
ScoreDefault == 70
ScoreFallback == 50

\* ---------------------------------------------------------------- strings
\* A string is a sequence of characters.
StripLeft(s) ==
  LET n == Len(s)
      lead == IF \A i \in 1..n : s[i] = " " THEN n
              ELSE (CHOOSE i \in 1..n : s[i] # " " /\ \A j \in 1..(i-1) : s[j] = " ") - 1
  IN  SubSeq(s, lead + 1, n)

StripRight(s) ==
  LET n == Len(s)
      keep == IF \A i \in 1..n : s[i] = " " THEN 0
              ELSE CHOOSE i \in 1..n : s[i] # " " /\ \A j \in (i+1)..n : s[j] = " "
  IN  SubSeq(s, 1, keep)

\* Strip that trims nothing, as if .strip() were left out.
StripNothing(s) == s

\* str.strip()
Strip(s) == StripRight(StripLeft(s))

UpperChar(c) ==
  CASE c = "a" -> "A"
    [] c = "b" -> "B"
    [] c = "d" -> "D"
    [] OTHER -> c

\* str.upper()
Upper(s) == [i \in 1..Len(s) |-> UpperChar(s[i])]

\* The JSON body of a request: a field is absent or holds a string.
Missing == <<"<missing>">>

RawMarcas == { Missing, <<>>, <<" ">>, <<"a">>, <<" ", "a", " ">>, <<"A">>, <<"b">> }
RawPathMarcas == { <<"a">> }
RawDescs  == { Missing, <<>>, <<" ", " ">>, <<"d">>, <<"d", " ">> }

\* data.get(field, '')
GetField(raw) == IF raw = Missing THEN <<>> ELSE raw

\* ------------------------------------------------------------ JSON values
\* A piece of text inside a note, a class label or a recommendation; m is
\* the brand name interpolated by an f-string, empty otherwise.
Tok(w) == [w |-> w, m |-> <<>>]
TokM(w, marca) == [w |-> w, m |-> marca]

VInt(n) == [t |-> "int", n |-> n]
VStr    == [t |-> "str", n |-> 0]
VAbsent == [t |-> "absent", n |-> 0]

NoStatus == "<absent>"

Dict(v, nota, clases, recs) ==
  [kind |-> "dict", viabilidad |-> v, clases |-> clases, nota |-> nota,
   recomendaciones |-> recs, status_impi |-> NoStatus]

NonDict(kind) ==
  [kind |-> kind, viabilidad |-> VAbsent, clases |-> <<>>, nota |-> <<>>,
   recomendaciones |-> <<>>, status_impi |-> NoStatus]

NoValue == NonDict("none")

FallbackNoIA ==
  Dict(VInt(ScoreFallback),
       <<Tok("El analisis de IA no esta disponible")>>,
       <<Tok("IA no disponible - Consulta manual requerida")>>,
       <<Tok("Consultar con un abogado especializado")>>)

FallbackError ==
  Dict(VInt(ScoreFallback),
       <<Tok("No se pudo completar el analisis con IA")>>,
       <<Tok("Analisis automatico no disponible")>>,
       <<Tok("Consultar con un abogado especializado"),
         Tok("Verificar manualmente en marcanet")>>)

\* The model list with the classic fallback model placed first.
ModelosFallbackFirst == <<"gemini-pro", "gemini-2.0-flash", "gemini-2.5-flash", "gemini-1.5-flash">>

ModelosAProbar == <<"gemini-2.0-flash", "gemini-2.5-flash", "gemini-1.5-flash", "gemini-pro">>

\* Values the AI service may write as JSON.
AIClases == <<Tok("Clase 35"), Tok("Clase 42")>>
AIRecs   == <<Tok("Verificar clases"), Tok("Consultar especialista")>>
AINota   == <<Tok("marca distintiva")>>
AINotaJson == <<Tok("formato"), Tok("json"), Tok("moderno")>>

AIValues ==
  { Dict(VInt(95), AINota, AIClases, AIRecs),
    Dict(VInt(70), AINotaJson, AIClases, AIRecs),
    Dict(VInt(150), AINota, AIClases, AIRecs),
    Dict(VStr, AINota, AIClases, <<>>),
    Dict(VAbsent, AINota, <<>>, AIRecs),
    NonDict("list") }

Garbage == NonDict("garbage")

\* What one call of model.generate_content does: it raises, or it returns
\* a text.  A text is a JSON document or free text, bare or inside a
\* ``` fence (with or without the language tag json).
AIResponses ==
  { [raises |-> TRUE, fence |-> "none", content |-> Garbage] } \cup
  { [raises |-> FALSE, fence |-> f, content |-> c] :
      f \in {"none", "plain", "tagged"}, c \in AIValues \cup {Garbage} }

\* str.replace("json", "").replace("JSON", "") on the chosen fenced part
RemoveJsonWord(seq) ==
  SelectSeq(seq, LAMBDA tk : tk.w \notin {"json", "JSON"})

StripTag(v) ==
  [v EXCEPT !.nota = RemoveJsonWord(v.nota),
            !.clases = RemoveJsonWord(v.clases),
            !.recomendaciones = RemoveJsonWord(v.recomendaciones)]

\* Lines 79-91: the cleaned text handed to json.loads and the parse.
\* The result is [ok |-> FALSE] when json.loads raises.
ParseResponse(resp) ==
  IF resp.content.kind = "garbage"
    THEN [ok |-> FALSE, value |-> NoValue]
  ELSE IF resp.fence = "none"
    THEN [ok |-> TRUE, value |-> resp.content]
  ELSE IF resp.content.kind = "dict"
    THEN [ok |-> TRUE, value |-> StripTag(resp.content)]
  \* no part holds both braces: the text keeps its fence markers
  ELSE [ok |-> FALSE, value |-> NoValue]

\* ------------------------------------------------------- lru_cache store
Key(marca, desc) == <<marca, desc>>

\* A lookup that memoizes successful results only and retries a fallback.
CacheHitSuccessOnly(c, key) == key \in DOMAIN c /\ c[key].clases # FallbackError.clases

\* The lookup of lru_cache: every stored result is a hit, fallbacks included.
CacheHit(c, key) == key \in DOMAIN c

\* A hit moves the key to the most-recently-used end.
LruTouch(order, key) ==
  SelectSeq(order, LAMBDA k : k # key) \o <<key>>

\* A miss stores the computed object; a full cache drops its oldest key.
CacheInsert(c, order, key, val) ==
  LET full == Len(order) >= CacheMaxSize
      kept == IF full THEN Tail(order) ELSE order
      dom  == {kept[i] : i \in 1..Len(kept)} \cup {key}
  IN  [store |-> [k \in dom |-> IF k = key THEN val ELSE c[k]],
       order |-> kept \o <<key>>]

\* ---------------------------------------------------------- registry probe
Outcomes == {"DISPONIBLE", "OCUPADA", "VERIFICAR_MANUAL", "ERROR_CONEXION", "ERROR_TIMEOUT"}
NoOutcome == "<none>"

\* Pieces of an HTML body.  A body is a sequence of them.
Fragments ==
  { "No se encontraron registros", "<TABLE>", "Expediente", "solicitud",
    "<p>Bienvenido</p>" }

\* str.lower() of one fragment
LowerFrag(f) ==
  CASE f = "No se encontraron registros" -> "no se encontraron registros"
    [] f = "<TABLE>" -> "<table>"
    [] f = "Expediente" -> "expediente"
    [] f = "<p>Bienvenido</p>" -> "<p>bienvenido</p>"
    [] OTHER -> f

\* response.text.lower()
LowerText(body) == [i \in 1..Len(body) |-> LowerFrag(body[i])]

\* msg in text
Contains(text, msg) == \E i \in 1..Len(text) : text[i] = msg

\* the list no_resultados, each entry through msg.lower()
NoResultadosLower ==
  <<"no se encontraron registros", "sin resultados", "0 resultados", "no se encontro">>

\* soup.find('table'): html.parser folds tag names to lower case
SoupFindTable(body) == \E i \in 1..Len(body) : LowerFrag(body[i]) = "<table>"

Bodies == UNION { [1..n -> Fragments] : n \in 0..MaxBody }

\* Classify with the occupancy test placed before the no-results test.
ClassifyOccupancyFirst(body) ==
  LET texto_respuesta == LowerText(body)
  IN  IF SoupFindTable(body) \/ Contains(texto_respuesta, "expediente")
           \/ Contains(texto_respuesta, "solicitud")
        THEN "OCUPADA"
      ELSE IF \E i \in 1..Len(NoResultadosLower) : Contains(texto_respuesta, NoResultadosLower[i])
        THEN "DISPONIBLE"
      ELSE "VERIFICAR_MANUAL"

\* Lines 152-163: the ordered classification of the POST body.
Classify(body) ==
  LET texto_respuesta == LowerText(body)
  IN  IF \E i \in 1..Len(NoResultadosLower) : Contains(texto_respuesta, NoResultadosLower[i])
        THEN "DISPONIBLE"
      ELSE IF SoupFindTable(body) \/ Contains(texto_respuesta, "expediente")
                \/ Contains(texto_respuesta, "solicitud")
        THEN "OCUPADA"
      ELSE "VERIFICAR_MANUAL"

\* ExceptOutcome without the catch-all clause: other exceptions escape.
ExceptOutcomeNoCatchAll(exc) ==
  IF exc = "Timeout" THEN "ERROR_TIMEOUT" ELSE "<raised>"

\* Lines 165-170: the two except clauses.
ExceptOutcome(exc) ==
  IF exc = "Timeout" THEN "ERROR_TIMEOUT" ELSE "ERROR_CONEXION"

\* What session.get can do: answer with a status, or raise.
GetBehaviours == {"200", "503", "Timeout", "ConnectionError"}
\* What session.post and the parse can do: give a body, or raise.
PostBehaviours == {"body", "Timeout", "ConnectionError", "ParseError"}

\* ----------------------------------------------------------- merge rules
RecsOcupada ==
  <<Tok("Elegir un nombre de marca diferente"),
    Tok("Verificar si el registro esta vigente o abandonado"),
    Tok("Consultar si esta en clases diferentes a tu giro")>>

AlertaCritica(marca) == TokM("ALERTA CRITICA: la marca ya esta registrada en el IMPI", marca)
BuenasNoticias(marca) == TokM("Buenas noticias: no aparece registrada", marca)

Max(a, b) == IF a > b THEN a ELSE b

\* resultado.get('viabilidad', 70)
GetViabilidad(r) == IF r.viabilidad.t = "absent" THEN ScoreDefault ELSE r.viabilidad.n

\* SetStatus that keeps a status already present (setdefault).
SetStatusIfAbsent(r, disponibilidad) ==
  IF r.status_impi = NoStatus THEN [r EXCEPT !.status_impi = disponibilidad] ELSE r

\* Line 196
SetStatus(r, disponibilidad) == [r EXCEPT !.status_impi = disponibilidad]

\* AjusteOcupada that only lowers the score and keeps the recommendations.
AjusteOcupadaScoreOnly(r, marca) ==
  [r EXCEPT !.viabilidad = VInt(ScoreOcupada),
            !.nota = <<AlertaCritica(marca)>>]

\* Lines 200-206
AjusteOcupada(r, marca) ==
  [r EXCEPT !.viabilidad = VInt(ScoreOcupada),
            !.nota = <<AlertaCritica(marca)>>,
            !.recomendaciones = RecsOcupada]

\* Lines 208-209
AjusteDisponible(r, marca) ==
  [r EXCEPT !.viabilidad = VInt(Max(GetViabilidad(r), ScoreDisponibleMin)),
            !.nota = <<BuenasNoticias(marca)>> \o r.nota]

\* Lines 196-214 on the object r: the object as the handler leaves it and
\* whether an exception escaped (TypeError on a non-dict or on max() with a
\* non-number, KeyError at line 211).
MergeStep(r, marca, disponibilidad) ==
  IF r.kind # "dict"
    THEN [raised |-> TRUE, value |-> r]
  ELSE LET r1 == SetStatus(r, disponibilidad)
       IN  IF disponibilidad = "OCUPADA"
             THEN [raised |-> FALSE, value |-> AjusteOcupada(r1, marca)]
           ELSE IF disponibilidad = "DISPONIBLE"
             THEN IF r1.viabilidad.t = "str"
                    THEN [raised |-> TRUE, value |-> r1]
                    ELSE [raised |-> FALSE, value |-> AjusteDisponible(r1, marca)]
           ELSE IF r1.viabilidad.t = "absent"
             THEN [raised |-> TRUE, value |-> r1]
             ELSE [raised |-> FALSE, value |-> r1]

\* ----------------------------------------------------------------- state
\* The text of the AI response that parsed: fenced or bare, and what it wrote.
NoText == [fenced |-> FALSE, content |-> NoValue]

IdleReq ==
  [route |-> "none", marca |-> <<>>, desc |-> <<>>, hit |-> FALSE, modelIdx |-> 0,
   aiCalls |-> <<>>, aiResults |-> <<>>, aiText |-> NoText,
   httpCalls |-> <<>>, get |-> "none", post |-> "none",
   body |-> <<>>, disponibilidad |-> NoOutcome]

NoResponse ==
  [code |-> 0, route |-> "none", valid |-> FALSE, marca |-> <<>>, desc |-> <<>>,
   hit |-> FALSE, outcome |-> NoOutcome, advised |-> NoValue, payload |-> NoValue,
   error |-> FALSE, aiCalls |-> <<>>, aiResults |-> <<>>, httpCalls |-> <<>>,
   get |-> "none", post |-> "none"]

Init ==
  /\ GEMINI_AVAILABLE \in BOOLEAN
  /\ cache = <<>>
  /\ lru = <<>>
  /\ orig = <<>>
  /\ pc = "idle"
  /\ req = IdleReq
  /\ last = NoResponse
  /\ nreq = 0

ReqKey == Key(req.marca, req.desc)

\* analizar_con_gemini returns with val, computed on a miss: lru_cache stores it.
AdviseStore(val) ==
  LET ins == CacheInsert(cache, lru, ReqKey, val)
  IN  /\ cache' = ins.store
      /\ lru' = ins.order
      /\ orig' = [k \in DOMAIN ins.store |-> IF k = ReqKey THEN val ELSE orig[k]]

\* ------------------------------------------------------------- /consultar
\* Lines 178-192: validation, normalisation and the call of the advisor up
\* to its first outbound call.
Consultar(rawMarca, rawDesc) ==
  /\ pc = "idle"
  /\ nreq < MaxRequests
  /\ nreq' = nreq + 1
  /\ UNCHANGED GEMINI_AVAILABLE
  /\ LET marca == Strip(GetField(rawMarca))
         desc  == Strip(GetField(rawDesc))
     IN  IF marca = <<>> \/ desc = <<>>
           THEN /\ last' = [NoResponse EXCEPT !.code = 400, !.route = "consultar",
                                              !.error = TRUE]
                /\ UNCHANGED <<cache, lru, orig, pc, req>>
           ELSE LET key == Key(Upper(marca), desc)
                    r   == [IdleReq EXCEPT !.route = "consultar", !.marca = Upper(marca),
                                           !.desc = desc]
                IN  /\ last' = NoResponse
                    /\ IF CacheHit(cache, key)
                         THEN /\ lru' = LruTouch(lru, key)
                              /\ req' = [r EXCEPT !.hit = TRUE]
                              /\ pc' = "get"
                              /\ UNCHANGED <<cache, orig>>
                       ELSE IF ~GEMINI_AVAILABLE
                         THEN /\ req' = r
                              /\ pc' = "get"
                              /\ LET ins == CacheInsert(cache, lru, key, FallbackNoIA)
                                 IN  /\ cache' = ins.store
                                     /\ lru' = ins.order
                                     /\ orig' = [k \in DOMAIN ins.store |->
                                                   IF k = key THEN FallbackNoIA ELSE orig[k]]
                       ELSE /\ req' = [r EXCEPT !.modelIdx = 1]
                            /\ pc' = "model"
                            /\ UNCHANGED <<cache, lru, orig>>

\* Lines 66-113: one turn of the loop over modelos_a_probar.
TryModel(resp) ==
  /\ pc = "model"
  /\ LET parsed == ParseResponse(resp)
         calls  == Append(req.aiCalls, ModelosAProbar[req.modelIdx])
         ok     == ~resp.raises /\ parsed.ok
         res    == Append(req.aiResults, IF ok THEN "parsed" ELSE "failed")
     IN  IF ok
           THEN /\ AdviseStore(parsed.value)
                /\ req' = [req EXCEPT !.aiCalls = calls, !.aiResults = res,
                                        !.aiText = [fenced |-> resp.fence # "none",
                                                    content |-> resp.content]]
                /\ pc' = "get"
         ELSE IF req.modelIdx < Len(ModelosAProbar)
           THEN /\ req' = [req EXCEPT !.aiCalls = calls, !.aiResults = res,
                                        !.modelIdx = @ + 1]
                /\ UNCHANGED <<cache, lru, orig, pc>>
         ELSE /\ AdviseStore(FallbackError)
              /\ req' = [req EXCEPT !.aiCalls = calls, !.aiResults = res]
              /\ pc' = "get"
  /\ UNCHANGED <<GEMINI_AVAILABLE, last, nreq>>

\* -------------------------------------------------- buscar_en_marcanet_http
AfterProbe == IF req.route = "consultar" THEN "merge" ELSE "test_respond"

\* ProbeGet without the status check of line 131.
ProbeGetNoStatusCheck(g) ==
  /\ pc = "get"
  /\ LET calls == Append(req.httpCalls, "GET")
     IN  IF g \in {"Timeout", "ConnectionError"}
           THEN /\ req' = [req EXCEPT !.httpCalls = calls, !.get = g,
                                        !.disponibilidad = ExceptOutcome(g)]
                /\ pc' = AfterProbe
         ELSE /\ req' = [req EXCEPT !.httpCalls = calls, !.get = g]
              /\ pc' = "post"
  /\ UNCHANGED <<GEMINI_AVAILABLE, cache, lru, orig, last, nreq>>

\* Lines 129-132: the bootstrap GET.
ProbeGet(g) ==
  /\ pc = "get"
  /\ LET calls == Append(req.httpCalls, "GET")
     IN  IF g = "200"
           THEN /\ req' = [req EXCEPT !.httpCalls = calls, !.get = g]
                /\ pc' = "post"
         ELSE IF g \in {"Timeout", "ConnectionError"}
           THEN /\ req' = [req EXCEPT !.httpCalls = calls, !.get = g,
                                        !.disponibilidad = ExceptOutcome(g)]
                /\ pc' = AfterProbe
         ELSE /\ req' = [req EXCEPT !.httpCalls = calls, !.get = g,
                                      !.disponibilidad = "ERROR_CONEXION"]
              /\ pc' = AfterProbe
  /\ UNCHANGED <<GEMINI_AVAILABLE, cache, lru, orig, last, nreq>>

\* Lines 141-170: the query POST, the parse and the classification.
\* response.text is a local of the probe and is gone when it returns; the
\* body is kept in req, for inspection, on the diagnostic route only.
ProbePost(p, body) ==
  /\ pc = "post"
  /\ LET calls == Append(req.httpCalls, "POST")
     IN  IF p = "body"
           THEN req' = [req EXCEPT !.httpCalls = calls, !.post = p,
                                   !.body = IF req.route = "test_impi" THEN body ELSE <<>>,
                                   !.disponibilidad = Classify(body)]
           ELSE req' = [req EXCEPT !.httpCalls = calls, !.post = p,
                                   !.disponibilidad = ExceptOutcome(p)]
  /\ pc' = AfterProbe
  /\ UNCHANGED <<GEMINI_AVAILABLE, cache, lru, orig, last, nreq>>

\* Lines 196-214: the adjustments on the advisor's object and the response.
Merge ==
  /\ pc = "merge"
  /\ LET advised == cache[ReqKey]
         m       == MergeStep(advised, req.marca, req.disponibilidad)
     IN  /\ cache' = [cache EXCEPT ![ReqKey] = m.value]
         /\ last' = [code |-> IF m.raised THEN 500 ELSE 200,
                     route |-> "consultar", valid |-> TRUE,
                     marca |-> req.marca, desc |-> req.desc, hit |-> req.hit,
                     outcome |-> req.disponibilidad, advised |-> advised,
                     payload |-> IF m.raised THEN NoValue ELSE m.value,
                     error |-> FALSE,
                     aiCalls |-> req.aiCalls, aiResults |-> req.aiResults,
                     httpCalls |-> req.httpCalls,
                     get |-> req.get, post |-> req.post]
  /\ pc' = "idle"
  /\ req' = IdleReq
  /\ UNCHANGED <<GEMINI_AVAILABLE, lru, orig, nreq>>

\* ------------------------------------------------------ /test-impi/<marca>
\* Lines 224-227: the diagnostic route runs the probe alone.
TestImpi(rawMarca) ==
  /\ pc = "idle"
  /\ nreq < MaxRequests
  /\ nreq' = nreq + 1
  /\ req' = [IdleReq EXCEPT !.route = "test_impi", !.marca = Upper(rawMarca)]
  /\ pc' = "get"
  /\ last' = NoResponse
  /\ UNCHANGED <<GEMINI_AVAILABLE, cache, lru, orig>>

\* Lines 228-232
TestImpiRespond ==
  /\ pc = "test_respond"
  /\ last' = [NoResponse EXCEPT !.code = 200, !.route = "test_impi", !.valid = TRUE,
                                !.marca = req.marca, !.outcome = req.disponibilidad,
                                !.httpCalls = req.httpCalls, !.get = req.get,
                                !.post = req.post]
  /\ pc' = "idle"
  /\ req' = IdleReq
  /\ UNCHANGED <<GEMINI_AVAILABLE, cache, lru, orig, nreq>>

Next ==
  \/ \E rawMarca \in RawMarcas, rawDesc \in RawDescs : Consultar(rawMarca, rawDesc)
  \/ \E resp \in AIResponses : TryModel(resp)
  \/ \E g \in GetBehaviours : ProbeGet(g)
  \/ \E p \in PostBehaviours :
        \E body \in IF p = "body" THEN Bodies ELSE {<<>>} : ProbePost(p, body)
  \/ Merge
  \/ \E rawMarca \in RawPathMarcas : TestImpi(rawMarca)
  \/ TestImpiRespond

Spec == Init /\ [][Next]_vars

\* ================================================================ claims
Responded == pc = "idle" /\ last.code # 0 /\ last.route = "consultar"
Answered200 == Responded /\ last.code = 200
LastKey == Key(last.marca, last.desc)
ProbeReturned == pc \in {"merge", "test_respond"}

InRange(v) == v.t = "int" /\ v.n >= 0 /\ v.n <= 100

\* C1: every /consultar request with non-empty marca and descripcion is
\* answered 200 whatever the AI service and the registry do, and 400 is the
\* answer only to a missing or empty field.
C1_NeverServerError ==
  Responded => IF last.valid THEN last.code = 200 ELSE last.code = 400

\* C2: the viability score is an integer in [0,100], both in every value the
\* advisor returns and in the 'viabilidad' of every 200 response.
C2_ScoreClamped ==
  /\ \A k \in DOMAIN orig :
        (orig[k].kind = "dict" /\ orig[k].viabilidad.t # "absent") => InRange(orig[k].viabilidad)
  /\ Answered200 => InRange(last.payload.viabilidad)

\* C3: the payload of a request is the merge of the value the advisor
\* originally produced for its query with the request's own registry outcome,
\* whatever requests were handled before it.
C3_MergeOfOriginal ==
  Answered200 => last.payload = MergeStep(orig[LastKey], last.marca, last.outcome).value

\* C4: a second call of the advisor with the same arguments, the entry being
\* still cached, returns what the first call returned, field for field, and
\* makes no outbound call to the AI service.
C4_WarmCallIdentical ==
  (pc = "get" /\ req.route = "consultar" /\ req.hit) =>
     /\ cache[ReqKey] = orig[ReqKey]
     /\ req.aiCalls = <<>>

\* C5: when the registry outcome is OCUPADA the response has score 5, the
\* critical-alert note naming the brand and exactly the three fixed
\* recommendations, for every advisor object and after any earlier requests.
C5_OcupadaForcesFive ==
  (Responded /\ last.outcome = "OCUPADA" /\ last.advised.kind = "dict") =>
     /\ last.code = 200
     /\ last.payload.viabilidad = VInt(5)
     /\ last.payload.nota = <<AlertaCritica(last.marca)>>
     /\ last.payload.recomendaciones = RecsOcupada
     /\ Len(last.payload.recomendaciones) = 3

\* C5 witness: a cached advisor object first scored 95 is answered with 5.
C5_Witness ==
  /\ Answered200 /\ last.outcome = "OCUPADA" /\ last.hit
  /\ orig[LastKey].viabilidad = VInt(95)
  /\ last.payload.viabilidad = VInt(5)

\* C6: when the registry outcome is DISPONIBLE the response's score is
\* max(s, 80), s being the score the advisor gave this query, also when the
\* advisor's result comes from the cache.
C6_DisponibleRaises ==
  (Answered200 /\ last.outcome = "DISPONIBLE" /\ orig[LastKey].viabilidad.t = "int") =>
     last.payload.viabilidad = VInt(Max(orig[LastKey].viabilidad.n, 80))

\* C7: when the registry outcome is VERIFICAR_MANUAL the response's score is
\* the advisor's score lowered by 20 and floored at 20, and the note is
\* replaced by a warning.
C7_ManualLowers ==
  (Answered200 /\ last.outcome = "VERIFICAR_MANUAL" /\ last.advised.viabilidad.t = "int") =>
     /\ last.payload.viabilidad = VInt(Max(last.advised.viabilidad.n - 20, 20))
     /\ last.payload.nota # last.advised.nota

\* C8: when the registry outcome is an error category the response's score
\* is 50 and the note is replaced by a technical-failure warning; so it is
\* after a bootstrap GET with a non-success status.
C8_ErrorForcesFifty ==
  (Answered200 /\ last.outcome \in {"ERROR_CONEXION", "ERROR_TIMEOUT"}) =>
     /\ last.payload.viabilidad = VInt(50)
     /\ last.payload.nota # last.advised.nota

\* C9: the probe always returns one value of the outcome enumeration, for
\* every behaviour of the GET and the POST: a timeout of either request
\* gives ERROR_TIMEOUT, any other exception an error-category outcome.
C9_ProbeTotal ==
  ProbeReturned =>
     /\ req.disponibilidad \in Outcomes
     /\ ("Timeout" \in {req.get, req.post} => req.disponibilidad = "ERROR_TIMEOUT")
     /\ ({req.get, req.post} \cap {"ConnectionError", "ParseError"} # {}
           => req.disponibilidad \in {"ERROR_CONEXION", "ERROR_TIMEOUT"})

\* C9 witness: the POST raised something other than a timeout and the probe
\* returned ERROR_CONEXION.
C9_Witness ==
  /\ ProbeReturned /\ req.get = "200" /\ req.post \in {"ConnectionError", "ParseError"}
  /\ req.disponibilidad = "ERROR_CONEXION"

NoResultFragments == {"No se encontraron registros"}
OccupancyFragments == {"<TABLE>", "Expediente", "solicitud"}
BodyHas(body, frags) == \E i \in 1..Len(body) : body[i] \in frags

\* C10: a body with a no-results phrase is DISPONIBLE even if it also holds
\* a table or an occupancy indicator; otherwise a body with a table or an
\* occupancy indicator is OCUPADA; otherwise it is VERIFICAR_MANUAL.
C10_ClassifyOrdered ==
  (pc = "test_respond" /\ req.post = "body") =>
     req.disponibilidad =
       IF BodyHas(req.body, NoResultFragments) THEN "DISPONIBLE"
       ELSE IF BodyHas(req.body, OccupancyFragments) THEN "OCUPADA"
       ELSE "VERIFICAR_MANUAL"

\* C10 witness: a body with both a no-results phrase and a table was
\* classified DISPONIBLE.
C10_Witness ==
  /\ pc = "test_respond" /\ req.post = "body"
  /\ BodyHas(req.body, NoResultFragments) /\ BodyHas(req.body, {"<TABLE>"})
  /\ req.disponibilidad = "DISPONIBLE"

NonBlank(str) == \E i \in 1..Len(str) : str[i] # " "

\* C11: a /consultar request whose marca or descripcion is missing or empty
\* after trimming is answered 400 with an error field at once: no AI call,
\* no registry call, the advisor cache untouched; only requests with both
\* fields non-blank go on to the advisor and the probe.
C11_InvalidAnswered400 ==
  [][ (pc = "idle" /\ nreq' = nreq + 1 /\ req'.route # "test_impi") =>
        IF pc' = "idle"
          THEN /\ last'.code = 400 /\ last'.error /\ ~last'.valid
               /\ last'.aiCalls = <<>> /\ last'.httpCalls = <<>>
               /\ cache' = cache /\ lru' = lru /\ req' = IdleReq
          ELSE NonBlank(req'.marca) /\ NonBlank(req'.desc) ]_vars

\* C11 witness: a 400 answer given while the cache holds an entry.
C11_Witness ==
  pc = "idle" /\ last.code = 400 /\ last.error /\ DOMAIN cache # {}

ValidAnalysis(v) ==
  /\ v.kind = "dict" /\ v.viabilidad.t = "int"
  /\ v.clases # <<>> /\ v.recomendaciones # <<>>

AllFailed(results) ==
  Len(results) = 4 /\ \A i \in 1..4 : results[i] = "failed"

\* C12: the advisor always returns a valid AnalysisResult (four fields,
\* non-empty clases and recomendaciones); unconfigured it returns the
\* 'AI unavailable' fallback with score 50 and no outbound call; when every
\* model fails it returns the fallback with score 50.
C12_AdviseAlwaysValid ==
  /\ \A k \in DOMAIN orig : ValidAnalysis(orig[k])
  /\ (pc = "get" /\ req.route = "consultar" /\ ~req.hit /\ ~GEMINI_AVAILABLE) =>
        (cache[ReqKey] = FallbackNoIA /\ req.aiCalls = <<>>)
  /\ (pc = "get" /\ req.route = "consultar" /\ AllFailed(req.aiResults)) =>
        (cache[ReqKey] = FallbackError /\ cache[ReqKey].viabilidad = VInt(50))

\* C13: every 200 response of /consultar carries in status_impi the outcome
\* the probe returned for that request, whichever merge rule fired or none,
\* and whatever status an earlier request left in the cached object.
C13_StatusIsOwnOutcome ==
  Answered200 => last.payload.status_impi = last.outcome

\* C13 witness: no merge rule fired and the cached object carried another
\* request's status.
C13_Witness ==
  /\ Answered200 /\ last.hit
  /\ last.outcome \in {"VERIFICAR_MANUAL", "ERROR_CONEXION", "ERROR_TIMEOUT"}
  /\ last.advised.status_impi \notin {NoStatus, last.outcome}
  /\ last.payload.status_impi = last.outcome

PriorityOrder == <<"gemini-2.0-flash", "gemini-2.5-flash", "gemini-1.5-flash", "gemini-pro">>

CallsInOrder(calls, results) ==
  /\ Len(calls) <= 4 /\ Len(results) = Len(calls)
  /\ \A i \in 1..Len(calls) : calls[i] = PriorityOrder[i]
  /\ \A i \in 1..(Len(calls) - 1) : results[i] = "failed"

\* C14: on a miss with the AI configured the models are invoked in the fixed
\* priority order, each at most once, model k+1 only after model k failed;
\* the first response that parses is the result and no later model is
\* invoked; a hit or an unconfigured service invokes none.
C14_ModelsInOrder ==
  /\ CallsInOrder(req.aiCalls, req.aiResults)
  /\ CallsInOrder(last.aiCalls, last.aiResults)
  /\ pc = "model" => /\ Len(req.aiCalls) = req.modelIdx - 1
                     /\ \A i \in 1..Len(req.aiResults) : req.aiResults[i] = "failed"
  /\ (req.hit \/ ~GEMINI_AVAILABLE) => req.aiCalls = <<>>
  /\ (pc \in {"get", "post", "merge"} /\ req.aiResults # <<>>
        /\ req.aiResults[Len(req.aiResults)] = "parsed") =>
          /\ orig[ReqKey] # FallbackError
          /\ ~req.aiText.fenced => orig[ReqKey] = req.aiText.content

\* C14 witness: the third model's response parsed after two failures.
C14_Witness ==
  /\ pc = "get" /\ req.aiResults = <<"failed", "failed", "parsed">>
  /\ req.aiCalls = <<"gemini-2.0-flash", "gemini-2.5-flash", "gemini-1.5-flash">>

\* C15: under DISPONIBLE the response's note is the confirmation message
\* followed by the note the advisor produced for the query: the prefix
\* occurs once and the suffix is never a note written by an earlier merge.
C15_NoteIsPrefixPlusOriginal ==
  (Answered200 /\ last.outcome = "DISPONIBLE") =>
     last.payload.nota = <<BuenasNoticias(last.marca)>> \o orig[LastKey].nota

\* C16: the bootstrap GET precedes the query POST; a GET with a non-success
\* status makes the probe return ERROR_CONEXION without a POST; the POST is
\* issued at most once and only after a GET that answered 200.
C16_GetBeforePost ==
  /\ req.httpCalls \in {<<>>, <<"GET">>, <<"GET", "POST">>}
  /\ last.httpCalls \in {<<>>, <<"GET">>, <<"GET", "POST">>}
  /\ req.httpCalls = <<"GET", "POST">> => req.get = "200"
  /\ last.httpCalls = <<"GET", "POST">> => last.get = "200"
  /\ pc = "post" => (req.httpCalls = <<"GET">> /\ req.get = "200")
  /\ (ProbeReturned /\ req.get = "503") =>
        (req.disponibilidad = "ERROR_CONEXION" /\ req.httpCalls = <<"GET">>)

\* C16 witness: the GET answered 503 and the probe returned without a POST.
C16_Witness ==
  /\ ProbeReturned /\ req.get = "503" /\ req.httpCalls = <<"GET">>
  /\ req.disponibilidad = "ERROR_CONEXION"

\* C17: when the AI text is fenced, the parsed result is the object the
\* model wrote: only the language tag is removed, 'json' inside field values
\* is kept.
C17_FencedContentUnchanged ==
  (pc = "get" /\ req.route = "consultar" /\ req.aiText.fenced) =>
     orig[ReqKey] = req.aiText.content

\* C18: once every model failed for a key, the fallback is in the cache like
\* a result: a later call with that key is a hit on that entry and makes no
\* AI call and no retry, whatever the AI service would answer now.
C18_FallbackMemoized ==
  [][ /\ (/\ pc = "idle" /\ pc' # "idle" /\ req'.route = "consultar"
          /\ Key(req'.marca, req'.desc) \in DOMAIN orig
          /\ orig[Key(req'.marca, req'.desc)] = FallbackError) =>
            /\ pc' = "get" /\ req'.hit /\ req'.aiCalls = <<>>
            /\ cache' = cache /\ orig' = orig
            /\ cache[Key(req'.marca, req'.desc)].clases = FallbackError.clases
      /\ (req'.route = "consultar" /\ req'.hit) => (pc' # "model" /\ req'.aiCalls = <<>>) ]_vars

\* C18 witness: with the AI configured, a request was served the cached
\* fallback of an earlier all-models-failed call without any AI call.
C18_Witness ==
  /\ Answered200 /\ last.hit /\ GEMINI_AVAILABLE
  /\ orig[LastKey] = FallbackError /\ last.aiCalls = <<>>

====
